---- MODULE Spec2Model ----
(***************************************************************************)
(* Model of the per-frame simulation systems of rec-wars                   *)
(* (src/src/systems.rs): self_destruct, vehicle_movement, vehicle_logic,   *)
(* shooting, gm_turning, projectiles, projectiles_timeout.                 *)
(*                                                                         *)
(* Numbers: the code computes in f64.  The model computes on the integer   *)
(* lattice: positions and velocities are pairs of integers, time is an     *)
(* integer, an angle is an integer number of 1/TWO_PI-th turns, and        *)
(* sin/cos/rotation round the angle to the nearest quarter turn.           *)
(***************************************************************************)
EXTENDS Integers, Sequences, FiniteSets, TLC

VARIABLES
    cvars,      \* &Cvars passed to every system
    gs,         \* GameState: frame_time, dt, input, explosions, bfg_beams, railguns, guided_missile
    gs_prev,    \* GameState of the previous frame (only .input is read)
    ent_prev,   \* history: the Input component each vehicle had in the previous frame
    vehicles,   \* World: the entities with a Vehicle component, id -> components
    projs,      \* World: the projectile entities, id -> components
    next_id,    \* World: the next entity id the store hands out
    pass,       \* the system that ran last and what its loop did: to_remove, to_kill, cmds, logs
    pc          \* the system that runs next in the frame

vars == <<cvars, gs, gs_prev, ent_prev, vehicles, projs, next_id, pass, pc>>

----------------------------------------------------------------------------
(* Bounds of the model *)

\* frames run at frame_time 0 .. MaxTime
MaxTime == 1
\* g_weapon_reload_ammo is configured in 0 .. MaxReloadAmmo
MaxReloadAmmo == 2
\* the largest g_cluster_bomb_count of the configured runs
MaxClusterBombs == 2
\* the largest g_weapon_refire of the configured runs
MaxRefire == 2
\* the largest g_weapon_reload_time of the configured runs
MaxReloadTime == 2

----------------------------------------------------------------------------
(* Numbers and vectors *)

Max(a, b) == IF a >= b THEN a ELSE b
Min(a, b) == IF a <= b THEN a ELSE b
Abs(a) == IF a >= 0 THEN a ELSE -a

\* division rounding toward zero: the lattice value of a / b
TDiv(a, b) == IF a >= 0 THEN a \div b ELSE -((-a) \div b)

\* x *= -0.5
NegHalf(x) == TDiv(-x, 2)

RECURSIVE Pow(_, _)
Pow(b, e) == IF e <= 0 THEN 1 ELSE b * Pow(b, e - 1)

\* x * (1 - friction).powf(dt), 1 - friction given as the fraction keep[1] / keep[2]
MulPowf(x, keep, dt) == TDiv(x * Pow(keep[1], dt), Pow(keep[2], dt))

\* v.clamped(lo, hi)
clamped(v, lo, hi) == Max(lo, Min(hi, v))

VAdd(a, b) == <<a[1] + b[1], a[2] + b[2]>>
VSub(a, b) == <<a[1] - b[1], a[2] - b[2]>>
VMul(a, k) == <<a[1] * k, a[2] * k>>
VNegHalf(a) == <<NegHalf(a[1]), NegHalf(a[2])>>
magnitude_squared(a) == a[1] * a[1] + a[2] * a[2]

RECURSIVE ISqrtFrom(_, _)
ISqrtFrom(n, r) == IF (r + 1) * (r + 1) > n THEN r ELSE ISqrtFrom(n, r + 1)
\* |a| rounded down
magnitude(a) == ISqrtFrom(magnitude_squared(a), 0)

\* a.try_normalized().unwrap_or_default() * k
NormalizedTimes(a, k) ==
    LET m == magnitude(a) IN
    IF m = 0 THEN <<0, 0>> ELSE <<TDiv(a[1] * k, m), TDiv(a[2] * k, m)>>

\* 2.0 * PI in angle units; a quarter turn is TWO_PI \div 4
TWO_PI == 16

\* the quarter turn nearest to an angle
Quadrant(a) == (((a % TWO_PI) + TWO_PI \div 8) \div (TWO_PI \div 4)) % 4

\* v.rotated_z(a)
rotated_z(v, a) ==
    CASE Quadrant(a) = 0 -> v
      [] Quadrant(a) = 1 -> <<-v[2], v[1]>>
      [] Quadrant(a) = 2 -> <<-v[1], -v[2]>>
      [] Quadrant(a) = 3 -> <<v[2], -v[1]>>

\* a.to_vec2f()
to_vec2f(a) == rotated_z(<<1, 0>>, a)

\* v.to_angle()
to_angle(v) ==
    IF Abs(v[1]) >= Abs(v[2])
    THEN (IF v[1] >= 0 THEN 0 ELSE TWO_PI \div 2)
    ELSE (IF v[2] >= 0 THEN TWO_PI \div 4 ELSE 3 * (TWO_PI \div 4))

\* a.rem_euclid(2.0 * PI)
rem_euclid(a) == a % TWO_PI

----------------------------------------------------------------------------
(* Weapon archetypes *)

WEAPS_CNT == 7
WeaponList == <<"Mg", "Rail", "Cb", "Rockets", "Hm", "Gm", "Bfg">>
Weapon == {WeaponList[i] : i \in 1..WEAPS_CNT}
\* weapon as u8
WeaponAsU8(w) == (CHOOSE i \in 1..WEAPS_CNT : WeaponList[i] = w) - 1
\* Weapon::n(i).unwrap()
WeaponN(i) == WeaponList[i + 1]

\* Option: None, Some(x) and its unwrap()
None == <<>>
Some(x) == <<x>>
Unwrap(o) == o[1]

\* Ammo::Loaded(ready_time, count), Ammo::Reloading(start, end)
Loaded(ready_time, count) == [kind |-> "Loaded", a |-> ready_time, b |-> count]
Reloading(start, end) == [kind |-> "Reloading", a |-> start, b |-> end]

----------------------------------------------------------------------------
(* Input *)

EMPTY_INPUT ==
    [left |-> FALSE, right |-> FALSE, up |-> FALSE, down |-> FALSE,
     turret_left |-> FALSE, turret_right |-> FALSE,
     prev_weapon |-> FALSE, next_weapon |-> FALSE,
     fire |-> FALSE, self_destruct |-> FALSE]

B2I(b) == IF b THEN 1 ELSE 0
right_left(input) == B2I(input.right) - B2I(input.left)
up_down(input) == B2I(input.up) - B2I(input.down)

----------------------------------------------------------------------------
(* Map *)

TILE_SIZE == 64
\* the tile map: cols x rows tiles, walls are its blocking tiles
Map == [cols |-> 8, rows |-> 3, walls |-> {<<3, 1>>, <<2, 2>>}]

\* map.collision(point): the point is outside the map or in a blocking tile
collision(p) ==
    \/ p[1] < 0 \/ p[2] < 0
    \/ p[1] >= Map.cols * TILE_SIZE \/ p[2] >= Map.rows * TILE_SIZE
    \/ <<p[1] \div TILE_SIZE, p[2] \div TILE_SIZE>> \in Map.walls

\* the k-th of n steps from a to b
StepPoint(a, b, k, n) ==
    <<a[1] + TDiv((b[1] - a[1]) * k, n), a[2] + TDiv((b[2] - a[2]) * k, n)>>

RECURSIVE CollisionFrom(_, _, _, _)
CollisionFrom(a, b, k, n) ==
    IF k > n THEN None
    ELSE IF collision(StepPoint(a, b, k, n)) THEN Some(StepPoint(a, b, k, n))
    ELSE CollisionFrom(a, b, k + 1, n)

\* map.collision_between(a, b): the nearest blocking point on the segment, or None
collision_between(a, b) ==
    LET n == Max(Abs(b[1] - a[1]), Abs(b[2] - a[2])) \div (TILE_SIZE \div 8) + 1
    IN  CollisionFrom(a, b, 0, n)

\* hitbox.corners(pos, angle)
corners(hitbox, pos, angle) ==
    { VAdd(pos, rotated_z(<<sx * hitbox[1], sy * hitbox[2]>>, angle)) :
        sx \in {-1, 1}, sy \in {-1, 1} }

----------------------------------------------------------------------------
(* Kinematics *)

\* fn turning: the new turn rate, the rotated velocity and the new angle
turning(stats, vel, angle, turn_rate, input, dt) ==
    LET tr_change == right_left(input) * stats.turn_rate_increase * dt
        tr1 == turn_rate + tr_change
        tr_fric_const == stats.turn_rate_friction_const * dt
        tr2 == IF tr1 >= 0 THEN Max(tr1 - tr_fric_const, 0)
               ELSE Min(tr1 + tr_fric_const, 0)
        tr_new == MulPowf(tr2, stats.turn_rate_keep_linear, dt)
        tr3 == clamped(tr_new, -stats.turn_rate_max, stats.turn_rate_max)
        turn == tr3 * dt
        vel_rotation == turn * stats.turn_effectiveness
    IN  [turn_rate |-> tr3,
         vel |-> rotated_z(vel, vel_rotation),
         new_angle |-> rem_euclid(angle + turn)]

\* fn accel_decel: the new velocity
accel_decel(stats, vel, angle, input, dt) ==
    LET vel_change == up_down(input) * stats.accel_forward * dt
        v1 == VAdd(vel, VMul(to_vec2f(angle), vel_change))
        vel_fric_const == stats.friction_const * dt
        v2 == VSub(v1, NormalizedTimes(v1, Min(vel_fric_const, magnitude(v1))))
        v3 == <<MulPowf(v2[1], stats.keep_linear, dt), MulPowf(v2[2], stats.keep_linear, dt)>>
    IN  IF magnitude_squared(v3) > stats.speed_max * stats.speed_max
        THEN NormalizedTimes(v1, stats.speed_max)
        ELSE v3

----------------------------------------------------------------------------
(* Cvars: the tunable configuration and its accessor functions *)

VehicleStats ==
    [turn_rate_increase |-> 8, turn_rate_friction_const |-> 2,
     turn_rate_keep_linear |-> <<1, 2>>, turn_rate_max |-> 4, turn_effectiveness |-> 1,
     accel_forward |-> 32, friction_const |-> 4, keep_linear |-> <<1, 2>>,
     speed_max |-> 16]

WeaponStats ==
    [turn_rate_increase |-> 8, turn_rate_friction_const |-> 2,
     turn_rate_keep_linear |-> <<1, 2>>, turn_rate_max |-> 4, turn_effectiveness |-> 1,
     accel_forward |-> 8, friction_const |-> 0, keep_linear |-> <<1, 1>>,
     speed_max |-> 32]

\* the cvars with g_weapon_reload_ammo(_) set to n; scales are in tenths
CvarsWith(n) ==
    [g_self_destruct_explosion1_scale |-> 10,
     g_self_destruct_explosion2_scale |-> 20,
     g_turret_turn_speed |-> 4,
     g_machine_gun_angle_spread |-> 1,
     g_machine_gun_speed |-> 48,
     g_machine_gun_vehicle_velocity_factor |-> 1,
     g_cluster_bomb_count |-> 2,
     g_cluster_bomb_speed |-> 16,
     g_cluster_bomb_speed_spread_gaussian |-> FALSE,
     g_cluster_bomb_speed_spread_forward |-> 0,
     g_cluster_bomb_speed_spread_sideways |-> 0,
     g_cluster_bomb_vehicle_velocity_factor |-> 1,
     g_cluster_bomb_time |-> 1,
     g_cluster_bomb_time_spread |-> 1,
     g_cluster_bomb_explosion_scale |-> 5,
     g_rockets_speed |-> 24,
     g_rockets_vehicle_velocity_factor |-> 1,
     g_homing_missile_speed_initial |-> 16,
     g_homing_missile_vehicle_velocity_factor |-> 1,
     g_guided_missile_speed_initial |-> 16,
     g_guided_missile_vehicle_velocity_factor |-> 1,
     g_bfg_speed |-> 24,
     g_bfg_vehicle_velocity_factor |-> 1,
     g_bfg_beam_range |-> 100,
     g_weapon_refire |-> 1,
     g_weapon_reload_time |-> 1,
     g_weapon_reload_ammo |-> n]

g_vehicle_movement_stats(cv, veh_type) == VehicleStats
g_weapon_movement_stats(cv) == WeaponStats
g_weapon_refire(cv, weap) == cv.g_weapon_refire
g_weapon_reload_time(cv, weap) == cv.g_weapon_reload_time
g_weapon_reload_ammo(cv, weap) == cv.g_weapon_reload_ammo

\* Some(scale) or None
g_weapon_explosion_scale(cv, weap) ==
    CASE weap \in {"Mg", "Rail"} -> None
      [] weap = "Cb" -> Some(cv.g_cluster_bomb_explosion_scale)
      [] OTHER -> Some(10)

\* (hardpoint, weapon offset)
g_hardpoint(cv, veh_type, weap) ==
    IF weap \in {"Mg", "Rail"}
    THEN <<"Turret", <<0, 0>>>>
    ELSE <<"Chassis", <<0, 0>>>>

g_vehicle_turret_offset_chassis(cv, veh_type) == <<0, 0>>

\* Explosion::new(pos, scale, start_time, bfg)
Explosion(pos, scale, start_time, bfg) ==
    [pos |-> pos, scale |-> scale, start_time |-> start_time, bfg |-> bfg]

----------------------------------------------------------------------------
(* The entities of the store *)

VehicleIds == {1, 2, 3}
\* the ids of a set of entities in the order a query visits them
RECURSIVE InOrder(_)
InOrder(ids) ==
    IF ids = {} THEN <<>>
    ELSE LET m == CHOOSE i \in ids : \A j \in ids : i <= j
         IN  <<m>> \o InOrder(ids \ {m})

----------------------------------------------------------------------------
(* fn self_destruct *)

\* mutant of SelfDestructLoop: a destroyed vehicle self-destructs again
RECURSIVE SelfDestructLoop_Again(_, _, _, _)
SelfDestructLoop_Again(cv, g, vs, order) ==
    IF order = <<>> THEN [gs |-> g, vehicles |-> vs]
    ELSE IF g.input.self_destruct
    THEN SelfDestructLoop_Again(cv,
            [g EXCEPT !.explosions = @ \o
                <<Explosion(vs[Head(order)].pos, cv.g_self_destruct_explosion1_scale,
                            g.frame_time, FALSE),
                  Explosion(vs[Head(order)].pos, cv.g_self_destruct_explosion2_scale,
                            g.frame_time, FALSE)>>],
            [vs EXCEPT ![Head(order)].destroyed = TRUE],
            Tail(order))
    ELSE SelfDestructLoop_Again(cv, g, vs, Tail(order))

RECURSIVE SelfDestructLoop(_, _, _, _)
SelfDestructLoop(cv, g, vs, order) ==
    IF order = <<>> THEN [gs |-> g, vehicles |-> vs]
    ELSE LET id == Head(order)
             veh == vs[id]
         IN  IF g.input.self_destruct /\ ~veh.destroyed
             THEN SelfDestructLoop(cv,
                    [g EXCEPT !.explosions = @ \o
                        <<Explosion(veh.pos, cv.g_self_destruct_explosion1_scale,
                                    g.frame_time, FALSE),
                          Explosion(veh.pos, cv.g_self_destruct_explosion2_scale,
                                    g.frame_time, FALSE)>>],
                    [vs EXCEPT ![id].destroyed = TRUE],
                    Tail(order))
             ELSE SelfDestructLoop(cv, g, vs, Tail(order))

self_destruct(cv, g, vs) == SelfDestructLoop(cv, g, vs, InOrder(DOMAIN vs))

----------------------------------------------------------------------------
(* fn vehicle_movement *)

\* mutant of MoveVehicle: the candidate position is committed without the
\* collision test
MoveVehicle_NoRollback(cv, veh, g) ==
    LET stats == g_vehicle_movement_stats(cv, veh.veh_type)
        t == turning(stats, veh.vel, veh.angle, veh.turn_rate, veh.input, g.dt)
        turn_hit == \E corner \in corners(veh.hitbox, veh.pos, t.new_angle) :
                        collision(corner)
        angle1 == IF turn_hit THEN veh.angle ELSE t.new_angle
        vel1 == accel_decel(stats, t.vel, angle1, veh.input, g.dt)
    IN  [veh EXCEPT !.turn_rate = IF turn_hit THEN NegHalf(t.turn_rate) ELSE t.turn_rate,
                    !.angle = angle1,
                    !.vel = vel1,
                    !.pos = VAdd(veh.pos, VMul(vel1, g.dt))]

\* the loop body of vehicle_movement for one vehicle
MoveVehicle(cv, veh, g) ==
    LET stats == g_vehicle_movement_stats(cv, veh.veh_type)
        t == turning(stats, veh.vel, veh.angle, veh.turn_rate, veh.input, g.dt)
        turn_hit == \E corner \in corners(veh.hitbox, veh.pos, t.new_angle) :
                        collision(corner)
        turn_rate1 == IF turn_hit THEN NegHalf(t.turn_rate) ELSE t.turn_rate
        angle1 == IF turn_hit THEN veh.angle ELSE t.new_angle
        vel1 == accel_decel(stats, t.vel, angle1, veh.input, g.dt)
        new_pos == VAdd(veh.pos, VMul(vel1, g.dt))
        move_hit == \E corner \in corners(veh.hitbox, new_pos, angle1) :
                        collision(corner)
    IN  [veh EXCEPT !.turn_rate = turn_rate1,
                    !.angle = angle1,
                    !.vel = IF move_hit THEN VNegHalf(vel1) ELSE vel1,
                    !.pos = IF move_hit THEN veh.pos ELSE new_pos]

vehicle_movement(cv, vs, g) == [id \in DOMAIN vs |-> MoveVehicle(cv, vs[id], g)]

----------------------------------------------------------------------------
(* fn vehicle_logic *)

\* the loop body of vehicle_logic for one vehicle
LogicVehicle(cv, veh, g, g_prev) ==
    LET w1 == IF veh.input.prev_weapon /\ ~g_prev.input.prev_weapon
              THEN WeaponN((WeaponAsU8(veh.cur_weapon) + WEAPS_CNT - 1) % WEAPS_CNT)
              ELSE veh.cur_weapon
        w2 == IF veh.input.next_weapon /\ ~g_prev.input.next_weapon
              THEN WeaponN((WeaponAsU8(w1) + 1) % WEAPS_CNT)
              ELSE w1
        ta1 == IF g.input.turret_left
               THEN veh.turret_angle - cv.g_turret_turn_speed * g.dt
               ELSE veh.turret_angle
        ta2 == IF g.input.turret_right
               THEN ta1 + cv.g_turret_turn_speed * g.dt
               ELSE ta1
        ammo == veh.ammos[w2]
        ammo1 == IF ammo.kind = "Reloading" /\ g.frame_time >= ammo.b
                 THEN Loaded(g.frame_time, g_weapon_reload_ammo(cv, w2))
                 ELSE ammo
    IN  [veh EXCEPT !.cur_weapon = w2,
                    !.turret_angle = ta2,
                    !.ammos = [@ EXCEPT ![w2] = ammo1]]

vehicle_logic(cv, vs, g, g_prev) ==
    [id \in DOMAIN vs |-> LogicVehicle(cv, vs[id], g, g_prev)]

----------------------------------------------------------------------------
(* fn shooting *)

\* a projectile entity as cmds.push((...)) builds it; absent components are None
Projectile(weap, pos, vel, owner, time, angle, turn_rate, input) ==
    [weap |-> weap, pos |-> pos, vel |-> vel, owner |-> owner, time |-> time,
     angle |-> angle, turn_rate |-> turn_rate, input |-> input]

\* mutant of AmmoAfterShot: the shot does not move ready_time
AmmoAfterShot_NoRefire(cv, ammo, weap, frame_time) ==
    IF ammo.b - 1 = 0
    THEN Reloading(frame_time, frame_time + g_weapon_reload_time(cv, weap))
    ELSE Loaded(ammo.a, ammo.b - 1)

\* mutant of AmmoAfterShot: the count reaching 0 does not start the reload
AmmoAfterShot_NoReload(cv, ammo, weap, frame_time) ==
    Loaded(frame_time + g_weapon_refire(cv, weap), ammo.b - 1)

\* lines 199-204: the ammo entry after a shot at frame_time; the count is
\* decremented in the integers (its type is declared outside this file)
AmmoAfterShot(cv, ammo, weap, frame_time) ==
    LET count == ammo.b - 1
    IN  IF count = 0
        THEN Reloading(frame_time, frame_time + g_weapon_reload_time(cv, weap))
        ELSE Loaded(frame_time + g_weapon_refire(cv, weap), count)

\* mutant of CanShoot: a destroyed vehicle passes the guards
CanShoot_IgnoreDestroyed(veh, g) ==
    /\ g.input.fire
    /\ veh.ammos[veh.cur_weapon].kind = "Loaded"
    /\ ~(g.frame_time < veh.ammos[veh.cur_weapon].a)

\* lines 190-197: the vehicle passes the guards of the loop body
CanShoot(veh, g) ==
    /\ ~veh.destroyed
    /\ g.input.fire
    /\ veh.ammos[veh.cur_weapon].kind = "Loaded"
    /\ ~(g.frame_time < veh.ammos[veh.cur_weapon].a)

\* lines 206-221: (shot_angle, shot_origin)
ShotGeometry(cv, veh) ==
    LET hp == g_hardpoint(cv, veh.veh_type, veh.cur_weapon)
    IN  IF hp[1] = "Chassis"
        THEN <<veh.angle, VAdd(veh.pos, rotated_z(hp[2], veh.angle))>>
        ELSE LET shot_angle == veh.angle + veh.turret_angle
                 turret_offset == g_vehicle_turret_offset_chassis(cv, veh.veh_type)
             IN  <<shot_angle,
                   VAdd(VAdd(veh.pos, rotated_z(turret_offset, veh.angle)),
                        rotated_z(hp[2], shot_angle))>>

\* mutant of ClusterBombs: the loop stops one sub-munition early
RECURSIVE ClusterBombs_Short(_, _, _, _, _, _, _)
ClusterBombs_Short(cv, g, veh_id, veh, geo, rng, i) ==
    IF i >= cv.g_cluster_bomb_count THEN <<>>
    ELSE <<Projectile("Cb", geo[2],
                      VAdd(rotated_z(<<cv.g_cluster_bomb_speed, 0>>, geo[1]),
                           VMul(veh.vel, cv.g_cluster_bomb_vehicle_velocity_factor)),
                      veh_id,
                      Some(g.frame_time + cv.g_cluster_bomb_time
                              + rng.cb[i].time * cv.g_cluster_bomb_time_spread),
                      None, None, None)>>
            \o ClusterBombs_Short(cv, g, veh_id, veh, geo, rng, i + 1)

\* lines 244-271: the sub-munitions of one cluster bomb shot, i-th .. last
RECURSIVE ClusterBombs(_, _, _, _, _, _, _)
ClusterBombs(cv, g, veh_id, veh, geo, rng, i) ==
    IF i > cv.g_cluster_bomb_count THEN <<>>
    ELSE LET speed == cv.g_cluster_bomb_speed
             spread_forward == cv.g_cluster_bomb_speed_spread_forward * rng.cb[i].forward
             spread_sideways == cv.g_cluster_bomb_speed_spread_sideways * rng.cb[i].sideways
             shot_vel == VAdd(rotated_z(<<speed + spread_forward, spread_sideways>>, geo[1]),
                              VMul(veh.vel, cv.g_cluster_bomb_vehicle_velocity_factor))
             time == g.frame_time + cv.g_cluster_bomb_time
                        + rng.cb[i].time * cv.g_cluster_bomb_time_spread
         IN  <<Projectile("Cb", geo[2], shot_vel, veh_id, Some(time), None, None, None)>>
                \o ClusterBombs(cv, g, veh_id, veh, geo, rng, i + 1)

\* Vec2f::new(speed, 0.0).rotated_z(angle) + factor * veh_vel
ShotVel(speed, factor, veh_vel, angle) ==
    VAdd(rotated_z(<<speed, 0>>, angle), VMul(veh_vel, factor))

\* lines 224-307: what the match on cur_weapon pushes to cmds, geo being
\* (shot_angle, shot_origin)
Spawned(cv, g, veh_id, veh, rng, geo) ==
    CASE veh.cur_weapon = "Mg" ->
            <<Projectile("Mg", geo[2],
                ShotVel(cv.g_machine_gun_speed, cv.g_machine_gun_vehicle_velocity_factor,
                        veh.vel, geo[1] + cv.g_machine_gun_angle_spread * rng.normal),
                veh_id, None, None, None, None)>>
      [] veh.cur_weapon = "Rail" -> <<>>
      [] veh.cur_weapon = "Cb" -> ClusterBombs(cv, g, veh_id, veh, geo, rng, 1)
      [] veh.cur_weapon = "Rockets" ->
            <<Projectile("Rockets", geo[2],
                ShotVel(cv.g_rockets_speed, cv.g_rockets_vehicle_velocity_factor,
                        veh.vel, geo[1]),
                veh_id, None, None, None, None)>>
      [] veh.cur_weapon = "Hm" ->
            <<Projectile("Hm", geo[2],
                ShotVel(cv.g_homing_missile_speed_initial,
                        cv.g_homing_missile_vehicle_velocity_factor, veh.vel, geo[1]),
                veh_id, None, None, None, None)>>
      [] veh.cur_weapon = "Gm" ->
            IF veh_id # g.player_entity THEN <<>>
            ELSE <<Projectile("Gm", geo[2],
                    ShotVel(cv.g_guided_missile_speed_initial,
                            cv.g_guided_missile_vehicle_velocity_factor, veh.vel, geo[1]),
                    veh_id, None,
                    to_angle(ShotVel(cv.g_guided_missile_speed_initial,
                                     cv.g_guided_missile_vehicle_velocity_factor,
                                     veh.vel, geo[1])),
                    0, EMPTY_INPUT)>>
      [] veh.cur_weapon = "Bfg" ->
            <<Projectile("Bfg", geo[2],
                ShotVel(cv.g_bfg_speed, cv.g_bfg_vehicle_velocity_factor, veh.vel, geo[1]),
                veh_id, None, None, None, None)>>

\* lines 236-243: the railgun trace of a shot, or None
RailgunHit(origin, hit) == IF hit # None THEN Some(<<origin, Unwrap(hit)>>) ELSE None

RailgunTrace(cv, veh, geo) ==
    IF veh.cur_weapon = "Rail"
    THEN RailgunHit(geo[2],
                    collision_between(geo[2], VAdd(geo[2], VMul(to_vec2f(geo[1]), 100000))))
    ELSE None

\* lines 199-307: the loop body for the vehicle veh_id, which passes the guards;
\* new is what it pushes to cmds and trace its railgun trace.  acc holds gs,
\* the vehicles, cmds (the pushed entities with their ids), the next entity
\* id, and fired, the log of the vehicles that passed the guards
ShootOne(cv, acc, veh_id, new, trace) ==
    [acc EXCEPT
        !.vehicles[veh_id].ammos[acc.vehicles[veh_id].cur_weapon] =
            AmmoAfterShot(cv, @, acc.vehicles[veh_id].cur_weapon, acc.gs.frame_time),
        !.gs.railguns = IF trace # None THEN Append(@, Unwrap(trace)) ELSE @,
        !.gs.guided_missile =
            IF acc.vehicles[veh_id].cur_weapon = "Gm" /\ Len(new) > 0
            THEN Some(acc.next_id) ELSE @,
        !.cmds = @ \o [i \in 1..Len(new) |-> [id |-> acc.next_id + i - 1, e |-> new[i]]],
        !.next_id = @ + Len(new),
        !.fired = Append(@, veh_id)]

\* the shot of vehicle veh_id with its geometry
ShootWith(cv, acc, veh_id, rng, geo) ==
    ShootOne(cv, acc, veh_id,
             Spawned(cv, acc.gs, veh_id, acc.vehicles[veh_id], rng, geo),
             RailgunTrace(cv, acc.vehicles[veh_id], geo))

\* lines 189-309: the loop of shooting over the vehicles
RECURSIVE ShootingLoop(_, _, _, _)
ShootingLoop(cv, acc, rng, order) ==
    IF order = <<>> THEN acc
    ELSE IF ~CanShoot(acc.vehicles[Head(order)], acc.gs)
    THEN ShootingLoop(cv, acc, rng, Tail(order))
    ELSE ShootingLoop(cv,
            ShootWith(cv, acc, Head(order), rng,
                      ShotGeometry(cv, acc.vehicles[Head(order)])),
            rng, Tail(order))

\* line 310: cmds.flush(world)
Flush(ps, cmds) ==
    [id \in DOMAIN ps \cup {cmds[i].id : i \in 1..Len(cmds)} |->
        IF id \in DOMAIN ps THEN ps[id]
        ELSE (CHOOSE c \in {cmds[i] : i \in 1..Len(cmds)} : c.id = id).e]

\* the state after the loop and the flush
Flushed(ps, acc) ==
    [gs |-> acc.gs, vehicles |-> acc.vehicles, projs |-> Flush(ps, acc.cmds),
     next_id |-> acc.next_id, fired |-> acc.fired, cmds |-> acc.cmds]

shooting(cv, g, vs, ps, nid, rng) ==
    Flushed(ps, ShootingLoop(cv,
                    [gs |-> g, vehicles |-> vs, cmds |-> <<>>, next_id |-> nid,
                     fired |-> <<>>],
                    rng, InOrder(DOMAIN vs)))

----------------------------------------------------------------------------
(* fn gm_turning *)

\* the loop body of gm_turning for one guided missile
TurnMissile(cv, p, g) ==
    LET stats == g_weapon_movement_stats(cv)
        t == turning(stats, p.vel, p.angle, p.turn_rate, p.input, g.dt)
    IN  [p EXCEPT !.turn_rate = t.turn_rate,
                  !.angle = t.new_angle,
                  !.vel = accel_decel(stats, t.vel, t.new_angle, p.input, g.dt)]

gm_turning(cv, ps, g) ==
    [id \in DOMAIN ps |-> IF ps[id].weap = "Gm" THEN TurnMissile(cv, ps[id], g) ELSE ps[id]]

----------------------------------------------------------------------------
(* fn remove_projectile *)

\* mutant of remove_projectile: the reference to a removed guided missile is kept
remove_projectile_KeepReference(cv, g, to_remove, entity, weap, pos) ==
    LET expl_scale == g_weapon_explosion_scale(cv, weap)
    IN  [gs |-> IF expl_scale # None
                THEN [g EXCEPT !.explosions =
                        Append(@, Explosion(pos, Unwrap(expl_scale), g.frame_time,
                                            weap = "Bfg"))]
                ELSE g,
         to_remove |-> Append(to_remove, entity)]

remove_projectile(cv, g, to_remove, entity, weap, pos) ==
    LET expl_scale == g_weapon_explosion_scale(cv, weap)
        g1 == IF expl_scale # None
              THEN [g EXCEPT !.explosions =
                        Append(@, Explosion(pos, Unwrap(expl_scale), g.frame_time, weap = "Bfg"))]
              ELSE g
        g2 == IF weap = "Gm" THEN [g1 EXCEPT !.guided_missile = None] ELSE g1
    IN  [gs |-> g2, to_remove |-> Append(to_remove, entity)]

----------------------------------------------------------------------------
(* fn projectiles *)

\* lines 325-335: (entity, pos, angle, hitbox) of the vehicles that are not destroyed
VehicleSnapshot(vs) ==
    LET order == InOrder({id \in DOMAIN vs : ~vs[id].destroyed})
    IN  [i \in 1..Len(order) |->
            [id |-> order[i], pos |-> vs[order[i]].pos,
             angle |-> vs[order[i]].angle, hitbox |-> vs[order[i]].hitbox]]

\* mutant of IsOtherVehicle: the owner is a target like any other vehicle
IsOtherVehicle_Any(veh_id, p) == TRUE

\* line 358: the vehicle is not the projectile's owner
IsOtherVehicle(veh_id, p) == veh_id # p.owner

\* lines 359-360: the vehicle is within the proximity radius of the projectile
InProximity(p, veh) == magnitude_squared(VSub(p.pos, veh.pos)) <= 24 * 24

\* lines 367-369: the vehicle is in beam range of a BFG with a free line of sight
InBeam(cv, p, veh) ==
    /\ p.weap = "Bfg"
    /\ magnitude_squared(VSub(p.pos, veh.pos)) <= cv.g_bfg_beam_range * cv.g_bfg_beam_range
    /\ collision_between(p.pos, veh.pos) = None

\* The accumulator acc of the loops holds gs, the store (projs), to_remove and
\* to_kill as the loop has them, and two logs of what the loop did:
\*   kills: who was put on to_kill, by which projectile, how ("hit" or "beam"),
\*          and at, the length of gs.explosions before the first push
\*   stops: which projectile the map stopped, and at, as above

\* mutant of ProximityHit: the projectile's explosion is pushed before the vehicle's
ProximityHit_ProjectileFirst(cv, acc, proj_id, p, veh) ==
    LET r == remove_projectile(cv, acc.gs, acc.to_remove, proj_id, p.weap, p.pos)
    IN  [acc EXCEPT !.gs = [r.gs EXCEPT !.explosions =
                                Append(@, Explosion(veh.pos, 10, acc.gs.frame_time, FALSE))],
                    !.to_remove = r.to_remove,
                    !.to_kill = Append(@, veh.id),
                    !.kills = Append(@, [veh |-> veh.id, proj |-> proj_id, kind |-> "hit",
                                         at |-> Len(acc.gs.explosions)])]

\* lines 361-365: a proximity hit
ProximityHit(cv, acc, proj_id, p, veh) ==
    LET g1 == [acc.gs EXCEPT !.explosions =
                  Append(@, Explosion(veh.pos, 10, acc.gs.frame_time, FALSE))]
        r == remove_projectile(cv, g1, acc.to_remove, proj_id, p.weap, p.pos)
    IN  [acc EXCEPT !.gs = r.gs,
                    !.to_remove = r.to_remove,
                    !.to_kill = Append(@, veh.id),
                    !.kills = Append(@, [veh |-> veh.id, proj |-> proj_id, kind |-> "hit",
                                         at |-> Len(acc.gs.explosions)])]

\* lines 371-374: a beam hit
BeamHit(cv, acc, proj_id, p, veh) ==
    [acc EXCEPT !.gs.explosions =
                    Append(@, Explosion(veh.pos, 10, acc.gs.frame_time, FALSE)),
                !.gs.bfg_beams = Append(@, <<p.pos, veh.pos>>),
                !.to_kill = Append(@, veh.id),
                !.kills = Append(@, [veh |-> veh.id, proj |-> proj_id, kind |-> "beam",
                                     at |-> Len(acc.gs.explosions)])]

\* lines 357-377: the loop over the snapshot for one projectile at its committed position
RECURSIVE VehicleLoop(_, _, _, _, _)
VehicleLoop(cv, acc, proj_id, p, snapshot) ==
    IF snapshot = <<>> THEN acc
    ELSE LET veh == Head(snapshot)
         IN  IF IsOtherVehicle(veh.id, p)
             THEN IF InProximity(p, veh)
                  THEN ProximityHit(cv, acc, proj_id, p, veh)
                  ELSE IF InBeam(cv, p, veh)
                       THEN VehicleLoop(cv, BeamHit(cv, acc, proj_id, p, veh),
                                        proj_id, p, Tail(snapshot))
                       ELSE VehicleLoop(cv, acc, proj_id, p, Tail(snapshot))
             ELSE VehicleLoop(cv, acc, proj_id, p, Tail(snapshot))

\* mutant of MapHit: the explosion is put at the nominal destination
MapHit_AtDestination(cv, acc, proj_id, p, col_pos) ==
    LET r == remove_projectile(cv, acc.gs, acc.to_remove, proj_id, p.weap,
                               VAdd(p.pos, VMul(p.vel, acc.gs.dt)))
    IN  [acc EXCEPT !.gs = r.gs,
                    !.to_remove = r.to_remove,
                    !.stops = Append(@, [proj |-> proj_id, at |-> Len(acc.gs.explosions)])]

\* lines 350-352: the map stops the projectile p at col_pos
MapHit(cv, acc, proj_id, p, col_pos) ==
    LET r == remove_projectile(cv, acc.gs, acc.to_remove, proj_id, p.weap, col_pos)
    IN  [acc EXCEPT !.gs = r.gs,
                    !.to_remove = r.to_remove,
                    !.stops = Append(@, [proj |-> proj_id, at |-> Len(acc.gs.explosions)])]

\* lines 341-378: the loop over the projectiles
RECURSIVE ProjectileLoop(_, _, _, _)
ProjectileLoop(cv, acc, snapshot, order) ==
    IF order = <<>> THEN acc
    ELSE LET proj_id == Head(order)
             p == acc.projs[proj_id]
             new_pos == VAdd(p.pos, VMul(p.vel, acc.gs.dt))
             collision_ == collision_between(p.pos, new_pos)
             moved == [acc EXCEPT !.projs[proj_id].pos = new_pos]
         IN  IF p.weap = "Cb"
             THEN ProjectileLoop(cv, moved, snapshot, Tail(order))
             ELSE IF collision_ # None
             THEN ProjectileLoop(cv, MapHit(cv, acc, proj_id, p, Unwrap(collision_)),
                                 snapshot, Tail(order))
             ELSE ProjectileLoop(cv,
                    VehicleLoop(cv, moved, proj_id, moved.projs[proj_id], snapshot),
                    snapshot, Tail(order))

\* mutant of RemoveAll: only the first entity of to_remove is removed
RemoveAll_FirstOnly(ps, to_remove) ==
    [id \in DOMAIN ps \ {to_remove[i] : i \in 1..Min(1, Len(to_remove))} |-> ps[id]]

\* lines 380-382: world.remove(entity) for every entity of to_remove
RemoveAll(ps, to_remove) ==
    [id \in DOMAIN ps \ {to_remove[i] : i \in 1..Len(to_remove)} |-> ps[id]]

\* lines 384-388: destroyed = true for every vehicle of to_kill
KillAll(vs, to_kill) ==
    [id \in DOMAIN vs |->
        IF id \in {to_kill[i] : i \in 1..Len(to_kill)}
        THEN [vs[id] EXCEPT !.destroyed = TRUE]
        ELSE vs[id]]

projectiles(cv, g, vs, ps) ==
    LET acc == ProjectileLoop(cv,
                  [gs |-> g, projs |-> ps, to_remove |-> <<>>, to_kill |-> <<>>,
                   kills |-> <<>>, stops |-> <<>>],
                  VehicleSnapshot(vs), InOrder(DOMAIN ps))
    IN  [gs |-> acc.gs,
         projs |-> RemoveAll(acc.projs, acc.to_remove),
         vehicles |-> KillAll(vs, acc.to_kill),
         to_remove |-> acc.to_remove, to_kill |-> acc.to_kill, kills |-> acc.kills,
         stops |-> acc.stops, loop_projs |-> acc.projs]

----------------------------------------------------------------------------
(* fn projectiles_timeout *)

\* mutant of TimeoutLoop: a projectile is removed at frame_time = expiry already
RECURSIVE TimeoutLoop_AtExpiry(_, _, _, _)
TimeoutLoop_AtExpiry(cv, acc, ps, order) ==
    IF order = <<>> THEN acc
    ELSE IF ps[Head(order)].time # None /\ acc.gs.frame_time >= Unwrap(ps[Head(order)].time)
    THEN TimeoutLoop_AtExpiry(cv,
            remove_projectile(cv, acc.gs, acc.to_remove, Head(order),
                              ps[Head(order)].weap, ps[Head(order)].pos),
            ps, Tail(order))
    ELSE TimeoutLoop_AtExpiry(cv, acc, ps, Tail(order))

RECURSIVE TimeoutLoop(_, _, _, _)
TimeoutLoop(cv, acc, ps, order) ==
    IF order = <<>> THEN acc
    ELSE LET entity == Head(order)
             p == ps[entity]
         IN  IF p.time # None /\ acc.gs.frame_time > Unwrap(p.time)
             THEN TimeoutLoop(cv,
                    remove_projectile(cv, acc.gs, acc.to_remove, entity, p.weap, p.pos),
                    ps, Tail(order))
             ELSE TimeoutLoop(cv, acc, ps, Tail(order))

\* mutant of projectiles_timeout: the removals are not applied to the store
projectiles_timeout_NoRemoval(cv, g, ps) ==
    LET acc == TimeoutLoop(cv, [gs |-> g, to_remove |-> <<>>], ps, InOrder(DOMAIN ps))
    IN  [gs |-> acc.gs, projs |-> ps, to_remove |-> acc.to_remove]

projectiles_timeout(cv, g, ps) ==
    LET acc == TimeoutLoop(cv, [gs |-> g, to_remove |-> <<>>], ps, InOrder(DOMAIN ps))
    IN  [gs |-> acc.gs, projs |-> RemoveAll(ps, acc.to_remove), to_remove |-> acc.to_remove]

----------------------------------------------------------------------------
(* The frame loop: its inputs and the state before the first frame *)

\* a vehicle as the spawn routine creates it
NewVehicle(pos, angle, weap) ==
    [veh_type |-> "Tank", destroyed |-> FALSE, cur_weapon |-> weap, turret_angle |-> 0,
     ammos |-> [w \in Weapon |-> Loaded(0, 1)],
     pos |-> pos, vel |-> <<0, 0>>, angle |-> angle, turn_rate |-> 0,
     hitbox |-> <<12, 6>>, input |-> EMPTY_INPUT]

\* where the three vehicles stand and face; vehicle 1 is the player
Layouts ==
    { <<<<<<40, 96>>, 0>>, <<<<76, 112>>, 8>>, <<<<70, 84>>, 0>>>>,
      <<<<<<40, 96>>, 0>>, <<<<80, 96>>, 4>>, <<<<64, 40>>, 0>>>>,
      <<<<<<40, 96>>, 0>>, <<<<64, 40>>, 0>>, <<<<80, 96>>, 4>>>>,
      <<<<<<152, 120>>, 0>>, <<<<270, 96>>, 8>>, <<<<204, 142>>, 0>>>> }

\* the weapons the three vehicles start with
StartWeapons == { <<w, "Gm", "Mg">> : w \in Weapon }

\* the frame deltas of the frame loop
DtChoices == {1}

\* what one frame's input capture writes: gs.input, the Input component of every
\* vehicle, and the Input component of the guided missile gs.guided_missile names
TickInput(g, e1, e2, gm) ==
    [gs |-> g, ent |-> <<e1, e2, EMPTY_INPUT>>, gm |-> gm]

TickInputs ==
    LET E == EMPTY_INPUT
        fire == [E EXCEPT !.fire = TRUE]
        boom == [E EXCEPT !.self_destruct = TRUE]
        next == [E EXCEPT !.next_weapon = TRUE]
        prev == [E EXCEPT !.prev_weapon = TRUE]
        up == [E EXCEPT !.up = TRUE]
        right == [E EXCEPT !.right = TRUE]
    IN  { TickInput(E, E, E, E),
          TickInput(fire, fire, E, E),
          TickInput(boom, boom, E, E),
          TickInput([fire EXCEPT !.self_destruct = TRUE],
                    [fire EXCEPT !.self_destruct = TRUE], E, E),
          TickInput(next, next, E, E),
          TickInput(prev, prev, E, E),
          TickInput(E, E, next, E),
          TickInput(E, E, prev, E),
          TickInput(up, up, up, E),
          TickInput(right, right, E, right),
          TickInput([E EXCEPT !.turret_left = TRUE], E, E, E),
          TickInput([fire EXCEPT !.turret_right = TRUE], fire, E, E),
          TickInput(fire, fire, E, up) }

\* the samples one shooting() call draws from gs.rng, on the integer lattice:
\* StandardNormal, gen_range(-1.5, 1.5) and gen_range(-1.0, 1.0)
NormalSamples == {-1, 0, 1}
SpreadSamples == {-1, 0, 1}
TimeSamples == {-1, 0}

\* a draw that is multiplied by 0 is not enumerated
Draws(samples, factor) == IF factor = 0 THEN {0} ELSE samples

RngChoices(cv, g, vs) ==
    LET shooters == {vs[id].cur_weapon : id \in {i \in DOMAIN vs : CanShoot(vs[i], g)}}
        mg == IF "Mg" \in shooters
              THEN Draws(NormalSamples, cv.g_machine_gun_angle_spread) ELSE {0}
        fw == IF "Cb" \in shooters
              THEN Draws(SpreadSamples, cv.g_cluster_bomb_speed_spread_forward) ELSE {0}
        sw == IF "Cb" \in shooters
              THEN Draws(SpreadSamples, cv.g_cluster_bomb_speed_spread_sideways) ELSE {0}
        tm == IF "Cb" \in shooters
              THEN Draws(TimeSamples, cv.g_cluster_bomb_time_spread) ELSE {0}
    IN  [normal : mg,
         cb : [1..cv.g_cluster_bomb_count -> [forward : fw, sideways : sw, time : tm]]]

EmptyPass ==
    [system |-> "", to_remove |-> <<>>, to_kill |-> <<>>, kills |-> <<>>, stops |-> <<>>,
     fired |-> <<>>, cmds |-> <<>>, loop_projs |-> <<>>]

Init ==
    /\ cvars \in {CvarsWith(n) : n \in 0..MaxReloadAmmo}
    /\ gs = [frame_time |-> 0, dt |-> 1, input |-> EMPTY_INPUT,
             explosions |-> <<>>, bfg_beams |-> <<>>, railguns |-> <<>>,
             guided_missile |-> None, player_entity |-> 1]
    /\ gs_prev = [input |-> EMPTY_INPUT]
    /\ ent_prev = [id \in VehicleIds |-> EMPTY_INPUT]
    /\ \E l \in Layouts, w \in StartWeapons :
          vehicles = [id \in VehicleIds |-> NewVehicle(l[id][1], l[id][2], w[id])]
    /\ projs = <<>>
    /\ next_id = 4
    /\ pass = EmptyPass
    /\ pc = "input"

----------------------------------------------------------------------------
(* The steps of a frame *)

\* input capture at the start of a frame
Input ==
    /\ pc = "input"
    /\ \E t \in TickInputs :
        /\ gs' = [gs EXCEPT !.input = t.gs]
        /\ vehicles' = [id \in DOMAIN vehicles |-> [vehicles[id] EXCEPT !.input = t.ent[id]]]
        /\ projs' = [id \in DOMAIN projs |->
                        IF gs.guided_missile = Some(id)
                        THEN [projs[id] EXCEPT !.input = t.gm]
                        ELSE projs[id]]
    /\ pass' = EmptyPass
    /\ pc' = "self_destruct"
    /\ UNCHANGED <<cvars, gs_prev, ent_prev, next_id>>

SelfDestruct ==
    /\ pc = "self_destruct"
    /\ LET r == self_destruct(cvars, gs, vehicles)
       IN  /\ gs' = r.gs
           /\ vehicles' = r.vehicles
    /\ pass' = [EmptyPass EXCEPT !.system = "self_destruct"]
    /\ pc' = "vehicle_movement"
    /\ UNCHANGED <<cvars, gs_prev, ent_prev, projs, next_id>>

VehicleMovement ==
    /\ pc = "vehicle_movement"
    /\ vehicles' = vehicle_movement(cvars, vehicles, gs)
    /\ pass' = [EmptyPass EXCEPT !.system = "vehicle_movement"]
    /\ pc' = "vehicle_logic"
    /\ UNCHANGED <<cvars, gs, gs_prev, ent_prev, projs, next_id>>

VehicleLogic ==
    /\ pc = "vehicle_logic"
    /\ vehicles' = vehicle_logic(cvars, vehicles, gs, gs_prev)
    /\ pass' = [EmptyPass EXCEPT !.system = "vehicle_logic"]
    /\ pc' = "shooting"
    /\ UNCHANGED <<cvars, gs, gs_prev, ent_prev, projs, next_id>>

Shooting ==
    /\ pc = "shooting"
    /\ \E rng \in RngChoices(cvars, gs, vehicles) :
        \E r \in {shooting(cvars, gs, vehicles, projs, next_id, rng)} :
            /\ gs' = r.gs
            /\ vehicles' = r.vehicles
            /\ projs' = r.projs
            /\ next_id' = r.next_id
            /\ pass' = [EmptyPass EXCEPT !.system = "shooting",
                                         !.fired = r.fired, !.cmds = r.cmds]
    /\ pc' = "gm_turning"
    /\ UNCHANGED <<cvars, gs_prev, ent_prev>>

GmTurning ==
    /\ pc = "gm_turning"
    /\ projs' = gm_turning(cvars, projs, gs)
    /\ pass' = [EmptyPass EXCEPT !.system = "gm_turning"]
    /\ pc' = "projectiles"
    /\ UNCHANGED <<cvars, gs, gs_prev, ent_prev, vehicles, next_id>>

Projectiles ==
    /\ pc = "projectiles"
    /\ LET r == projectiles(cvars, gs, vehicles, projs)
       IN  /\ gs' = r.gs
           /\ vehicles' = r.vehicles
           /\ projs' = r.projs
           /\ pass' = [EmptyPass EXCEPT !.system = "projectiles",
                                        !.to_remove = r.to_remove, !.to_kill = r.to_kill,
                                        !.kills = r.kills, !.stops = r.stops,
                                        !.loop_projs = r.loop_projs]
    /\ pc' = "projectiles_timeout"
    /\ UNCHANGED <<cvars, gs_prev, ent_prev, next_id>>

ProjectilesTimeout ==
    /\ pc = "projectiles_timeout"
    /\ LET r == projectiles_timeout(cvars, gs, projs)
       IN  /\ gs' = r.gs
           /\ projs' = r.projs
           /\ pass' = [EmptyPass EXCEPT !.system = "projectiles_timeout",
                                        !.to_remove = r.to_remove]
    /\ pc' = "end"
    /\ UNCHANGED <<cvars, gs_prev, ent_prev, vehicles, next_id>>

\* the end of a frame: the renderer consumes the events, the state becomes the
\* previous state and the clock advances
EndFrame ==
    /\ pc = "end"
    /\ \E dt \in DtChoices :
        /\ gs.frame_time + dt <= MaxTime
        /\ gs' = [gs EXCEPT !.frame_time = @ + dt, !.dt = dt,
                            !.explosions = <<>>, !.bfg_beams = <<>>, !.railguns = <<>>]
    /\ gs_prev' = [input |-> gs.input]
    /\ ent_prev' = [id \in DOMAIN vehicles |-> vehicles[id].input]
    /\ pass' = EmptyPass
    /\ pc' = "input"
    /\ UNCHANGED <<cvars, vehicles, projs, next_id>>

Next ==
    \/ Input
    \/ SelfDestruct
    \/ VehicleMovement
    \/ VehicleLogic
    \/ Shooting
    \/ GmTurning
    \/ Projectiles
    \/ ProjectilesTimeout
    \/ EndFrame

Spec == Init /\ [][Next]_vars

\* the frame loop under other cvars: g_cluster_bomb_count, g_weapon_refire,
\* g_weapon_reload_time and g_weapon_reload_ammo vary, every magazine starts
\* full, vehicles 1 and 2 carry cluster bombs
CfgWeapons == { <<"Cb", "Cb", "Mg">> }

CfgCvars ==
    { [CvarsWith(n) EXCEPT !.g_cluster_bomb_count = c, !.g_weapon_refire = f,
                           !.g_weapon_reload_time = t] :
        n \in {1, MaxReloadAmmo}, c \in 0..MaxClusterBombs, f \in {1, MaxRefire},
        t \in {1, MaxReloadTime} }

CfgInit ==
    /\ cvars \in CfgCvars
    /\ gs = [frame_time |-> 0, dt |-> 1, input |-> EMPTY_INPUT,
             explosions |-> <<>>, bfg_beams |-> <<>>, railguns |-> <<>>,
             guided_missile |-> None, player_entity |-> 1]
    /\ gs_prev = [input |-> EMPTY_INPUT]
    /\ ent_prev = [id \in VehicleIds |-> EMPTY_INPUT]
    /\ \E w \in CfgWeapons :
          vehicles = [id \in VehicleIds |->
                        [NewVehicle(<<40 * id, 96>>, 0, w[id]) EXCEPT
                            !.ammos = [k \in Weapon |->
                                          Loaded(0, cvars.g_weapon_reload_ammo)]]]
    /\ projs = <<>>
    /\ next_id = 4
    /\ pass = EmptyPass
    /\ pc = "input"

CfgSpec == CfgInit /\ [][Next]_vars

\* the system the frame loop calls after the one at p
NextPc(p) ==
    CASE p = "input" -> "self_destruct"
      [] p = "self_destruct" -> "vehicle_movement"
      [] p = "vehicle_movement" -> "vehicle_logic"
      [] p = "vehicle_logic" -> "shooting"
      [] p = "shooting" -> "gm_turning"
      [] p = "gm_turning" -> "projectiles"
      [] p = "projectiles" -> "projectiles_timeout"
      [] p = "projectiles_timeout" -> "end"
      [] p = "end" -> "input"

\* the frame loop moves on: every system returns and the next one is called,
\* and the next frame starts as long as the clock is below MaxTime
Proceed ==
    /\ pc = "end" => gs.frame_time + 1 <= MaxTime
    /\ pc' = NextPc(pc)

\* the frame loop never stops while it can move on.  Every step of Next is a
\* step of Proceed and Next can take a step wherever Proceed can, so this is
\* weak fairness of Next
LiveSpec == Spec /\ WF_pc(Proceed)

----------------------------------------------------------------------------
(* Claims *)

\* the number of shots vehicle v fired in a shooting() pass
ShotsOf(ps, v) == Cardinality({i \in 1..Len(ps.fired) : ps.fired[i] = v})

\* C1: ammo round trip.  A vehicle that is not destroyed, with fire input and
\* with its selected weapon's ammo Loaded(ready_time, 1) at frame_time = ready_time,
\* fires exactly once in shooting() and its ammo becomes
\* Reloading(frame_time, frame_time + reload_time); a weapon whose ammo is
\* Reloading is not fired and its entry is not touched by shooting(); and
\* vehicle_logic() at frame_time >= end turns the selected weapon's Reloading
\* entry into Loaded(frame_time, configured reload count), which passes the
\* guards of shooting() again.
C1_Step ==
    /\ pc = "shooting" =>
        \A v \in VehicleIds :
            LET w == vehicles[v].cur_weapon
                ammo == vehicles[v].ammos[w]
            IN  /\ (/\ ~vehicles[v].destroyed
                    /\ gs.input.fire
                    /\ ammo = Loaded(gs.frame_time, 1))
                   => /\ ShotsOf(pass', v) = 1
                      /\ vehicles'[v].ammos[w] =
                            Reloading(gs.frame_time,
                                      gs.frame_time + g_weapon_reload_time(cvars, w))
                /\ \A x \in Weapon :
                      vehicles[v].ammos[x].kind = "Reloading"
                      => /\ vehicles'[v].ammos[x] = vehicles[v].ammos[x]
                         /\ (x = w => ShotsOf(pass', v) = 0)
    /\ pc = "vehicle_logic" =>
        \A v \in VehicleIds :
            LET w == vehicles'[v].cur_weapon
                ammo == vehicles[v].ammos[w]
            IN  (ammo.kind = "Reloading" /\ gs.frame_time >= ammo.b)
                => /\ vehicles'[v].ammos[w] =
                        Loaded(gs.frame_time, g_weapon_reload_ammo(cvars, w))
                   /\ CanShoot([vehicles'[v] EXCEPT !.destroyed = FALSE],
                               [gs EXCEPT !.input.fire = TRUE])

C1_AmmoRoundTrip == [][C1_Step]_vars

\* a vehicle fired at frame_time 0 from Loaded(0, 1), was reloaded to the
\* configured count 2 by vehicle_logic() at frame_time 1 and has fired again
C1_Witness ==
    /\ pass.system = "shooting"
    /\ gs.frame_time = 1
    /\ cvars.g_weapon_reload_ammo = 2
    /\ \E v \in VehicleIds :
          /\ ShotsOf(pass, v) = 1
          /\ vehicles[v].ammos[vehicles[v].cur_weapon] = Loaded(2, 1)

\* C2: a vehicle other than the player with GuidedMissile selected that passes
\* the guards of shooting() is left as it was, spawns nothing, and when no
\* other vehicle shoots the call changes nothing at all.
C2_Step ==
    pc = "shooting" =>
        \A v \in VehicleIds :
            (/\ v # gs.player_entity
             /\ vehicles[v].cur_weapon = "Gm"
             /\ CanShoot(vehicles[v], gs))
            => /\ vehicles'[v].ammos = vehicles[v].ammos
               /\ \A i \in 1..Len(pass'.cmds) : pass'.cmds[i].e.owner # v
               /\ (\A u \in VehicleIds \ {v} : ~CanShoot(vehicles[u], gs))
                  => (gs' = gs /\ vehicles' = vehicles /\ projs' = projs)

C2_NonPlayerGmChangesNothing == [][C2_Step]_vars

\* C3: vehicle_movement() leaves Pos, Vel, Angle and TurnRate of every
\* destroyed vehicle unchanged.
C3_Step ==
    pc = "vehicle_movement" =>
        \A v \in VehicleIds :
            vehicles[v].destroyed
            => /\ vehicles'[v].pos = vehicles[v].pos
               /\ vehicles'[v].vel = vehicles[v].vel
               /\ vehicles'[v].angle = vehicles[v].angle
               /\ vehicles'[v].turn_rate = vehicles[v].turn_rate

C3_DestroyedDoesNotMove == [][C3_Step]_vars

\* C4: a Loaded ammo entry never has a negative count, and shooting() leaves
\* no Loaded entry with count 0 behind for a weapon it fired.
C4_LoadedCountPositive ==
    /\ \A v \in VehicleIds, w \in Weapon :
          vehicles[v].ammos[w].kind = "Loaded" => vehicles[v].ammos[w].b >= 0
    /\ pass.system = "shooting" =>
          \A v \in VehicleIds :
              ShotsOf(pass, v) > 0
              => ~(/\ vehicles[v].ammos[vehicles[v].cur_weapon].kind = "Loaded"
                   /\ vehicles[v].ammos[vehicles[v].cur_weapon].b = 0)

\* C5: when the entity gs.guided_missile names is removed from the store,
\* gs.guided_missile is None after that step, and after every step the entity
\* gs.guided_missile names is in the store.
C5_Step ==
    /\ \A e \in DOMAIN projs :
          (gs.guided_missile = Some(e) /\ e \notin DOMAIN projs')
          => gs'.guided_missile = None
    /\ gs'.guided_missile # None => Unwrap(gs'.guided_missile) \in DOMAIN projs'

C5_GuidedMissileCleared == [][C5_Step]_vars

\* projectiles() of the first frame removed the guided missile launched in that
\* frame, the one gs.guided_missile named, and the reference is None
C5_Witness ==
    /\ pass.system = "projectiles"
    /\ gs.frame_time = 0
    /\ gs.guided_missile = None
    /\ \E i \in 1..Len(pass.to_remove) : pass.loop_projs[pass.to_remove[i]].weap = "Gm"

\* C6: no vehicle is put on the kill list, given a destruction explosion or
\* made the target of a beam segment by a projectile it owns.
C6_OwnerNeverKilled ==
    pass.system = "projectiles" =>
        \A i \in 1..Len(pass.kills) :
            pass.kills[i].veh # pass.loop_projs[pass.kills[i].proj].owner

\* a projectile went through the vehicle loop within the proximity radius of
\* its owner, which is not destroyed, and was not removed
C6_Witness ==
    /\ pass.system = "projectiles"
    /\ \E id \in DOMAIN projs :
          /\ projs[id].weap # "Cb"
          /\ ~vehicles[projs[id].owner].destroyed
          /\ InProximity(projs[id], vehicles[projs[id].owner])

\* the vehicles of the snapshot of the projectiles() pass that just ran
SnapshotIds ==
    {v \in VehicleIds :
        ~vehicles[v].destroyed \/ \E i \in 1..Len(pass.to_kill) : pass.to_kill[i] = v}

Dist2(p, v) == magnitude_squared(VSub(p.pos, vehicles[v].pos))

\* C7: a projectile other than a BFG that scores a proximity hit destroys
\* exactly one vehicle, and no vehicle of the snapshot other than the owner
\* is nearer to the projectile than the destroyed one.
C7_NearestIsDestroyed ==
    pass.system = "projectiles" =>
        \A i \in 1..Len(pass.kills) :
            LET k == pass.kills[i]
                p == pass.loop_projs[k.proj]
            IN  (k.kind = "hit" /\ p.weap # "Bfg")
                => /\ Cardinality({j \in 1..Len(pass.kills) :
                                        pass.kills[j].proj = k.proj}) = 1
                   /\ \A u \in SnapshotIds \ {p.owner} : Dist2(p, u) >= Dist2(p, k.veh)

\* C8: for a BFG projectile that the map did not stop, every vehicle of the
\* snapshot other than the owner that is outside the proximity radius, within
\* g_bfg_beam_range and in free line of sight is on the kill list by a beam of
\* that projectile, and the beam is in gs.bfg_beams.
C8_BeamIndependent ==
    pass.system = "projectiles" =>
        \A id \in DOMAIN pass.loop_projs :
            LET p == pass.loop_projs[id]
            IN  (p.weap = "Bfg" /\ \A i \in 1..Len(pass.stops) : pass.stops[i].proj # id)
                => \A u \in SnapshotIds \ {p.owner} :
                      (~InProximity(p, vehicles[u]) /\ InBeam(cvars, p, vehicles[u]))
                      => /\ \E i \in 1..Len(pass.kills) :
                                pass.kills[i] = [veh |-> u, proj |-> id, kind |-> "beam",
                                                 at |-> pass.kills[i].at]
                         /\ \E j \in 1..Len(gs.bfg_beams) :
                                gs.bfg_beams[j] = <<p.pos, vehicles[u].pos>>

\* C9: on a proximity hit by a weapon with an explosion scale, the explosion
\* of the destroyed vehicle is in gs.explosions immediately before the
\* explosion of the projectile, and the projectile is on the removal list.
C9_VehicleExplosionFirst ==
    pass.system = "projectiles" =>
        \A i \in 1..Len(pass.kills) :
            LET k == pass.kills[i]
                p == pass.loop_projs[k.proj]
                scale == g_weapon_explosion_scale(cvars, p.weap)
            IN  (k.kind = "hit" /\ scale # None)
                => /\ k.at + 2 <= Len(gs.explosions)
                   /\ gs.explosions[k.at + 1] =
                        Explosion(vehicles[k.veh].pos, 10, gs.frame_time, FALSE)
                   /\ gs.explosions[k.at + 2] =
                        Explosion(p.pos, Unwrap(scale), gs.frame_time, p.weap = "Bfg")
                   /\ \E j \in 1..Len(pass.to_remove) : pass.to_remove[j] = k.proj

\* a proximity hit by an exploding projectile on a vehicle that stands
\* elsewhere than the projectile, so that the two explosions differ
C9_Witness ==
    /\ pass.system = "projectiles"
    /\ \E i \in 1..Len(pass.kills) :
          /\ pass.kills[i].kind = "hit"
          /\ g_weapon_explosion_scale(cvars, pass.loop_projs[pass.kills[i].proj].weap) # None
          /\ pass.loop_projs[pass.kills[i].proj].pos # vehicles[pass.kills[i].veh].pos

\* the projectiles of to_remove whose weapon has an explosion scale
Exploding(ps) ==
    {j \in 1..Len(ps.to_remove) :
        g_weapon_explosion_scale(cvars, ps.loop_projs[ps.to_remove[j]].weap) # None}

\* C10: a projectile other than a cluster bomb whose segment to pos + vel*dt
\* is blocked by the map is removed (once), keeps its position, kills no
\* vehicle, and its explosion, if its weapon has an explosion scale, is at the
\* intersection point with that scale and with the BFG flag exactly for a Bfg;
\* the pass enqueues one explosion per kill and per exploding removal, no more.
C10_Step ==
    pc = "projectiles" =>
        /\ \A id \in DOMAIN projs :
            LET p == projs[id]
                col == collision_between(p.pos, VAdd(p.pos, VMul(p.vel, gs.dt)))
                scale == g_weapon_explosion_scale(cvars, p.weap)
            IN  (p.weap # "Cb" /\ col # None)
                => /\ id \notin DOMAIN projs'
                   /\ Cardinality({j \in 1..Len(pass'.to_remove) :
                                        pass'.to_remove[j] = id}) = 1
                   /\ pass'.loop_projs[id].pos = p.pos
                   /\ \A j \in 1..Len(pass'.kills) : pass'.kills[j].proj # id
                   /\ \E j \in 1..Len(pass'.stops) :
                        /\ pass'.stops[j].proj = id
                        /\ scale # None
                           => /\ pass'.stops[j].at + 1 <= Len(gs'.explosions)
                              /\ gs'.explosions[pass'.stops[j].at + 1] =
                                    Explosion(Unwrap(col), Unwrap(scale), gs.frame_time,
                                              p.weap = "Bfg")
        /\ Len(gs'.explosions) =
              Len(gs.explosions) + Len(pass'.kills) + Cardinality(Exploding(pass'))

C10_MapCollision == [][C10_Step]_vars

\* the map stopped an exploding projectile short of its destination, and a
\* vehicle other than its owner stands within the proximity radius of the
\* destination and is not destroyed
C10_Witness ==
    /\ pass.system = "projectiles"
    /\ \E j \in 1..Len(pass.stops) :
          LET p == pass.loop_projs[pass.stops[j].proj]
              dest == VAdd(p.pos, VMul(p.vel, gs.dt))
          IN  /\ g_weapon_explosion_scale(cvars, p.weap) # None
              /\ gs.explosions[pass.stops[j].at + 1].pos # dest
              /\ \E u \in VehicleIds \ {p.owner} :
                    /\ ~vehicles[u].destroyed
                    /\ InProximity([pos |-> dest], vehicles[u])

\* the entries of a list are pairwise different
Distinct(list) == \A i, j \in 1..Len(list) : list[i] = list[j] => i = j

\* C11: projectiles_timeout() run twice at the same frame_time gives the store
\* and the gs that one run gives; one run removes exactly the projectiles
\* whose Time has passed, each once, and enqueues one explosion for each of
\* them whose weapon has an explosion scale and none else.
C11_Step ==
    pc = "projectiles_timeout" =>
        \E once \in {projectiles_timeout(cvars, gs, projs)} :
            /\ projs' = once.projs
            /\ gs' = once.gs
            /\ \E twice \in {projectiles_timeout(cvars, once.gs, once.projs)} :
                  /\ twice.projs = once.projs
                  /\ twice.gs = once.gs
                  /\ twice.to_remove = <<>>
            /\ Distinct(once.to_remove)
            /\ {once.to_remove[i] : i \in 1..Len(once.to_remove)} =
                  {id \in DOMAIN projs :
                      projs[id].time # None /\ gs.frame_time > Unwrap(projs[id].time)}
            /\ DOMAIN once.projs =
                  DOMAIN projs \ {once.to_remove[i] : i \in 1..Len(once.to_remove)}
            /\ Len(once.gs.explosions) =
                  Len(gs.explosions)
                  + Cardinality({i \in 1..Len(once.to_remove) :
                        g_weapon_explosion_scale(cvars, projs[once.to_remove[i]].weap) # None})

C11_TimeoutIdempotent == [][C11_Step]_vars

\* projectiles_timeout() has removed an expired projectile and enqueued its explosion
C11_Witness ==
    /\ pass.system = "projectiles_timeout"
    /\ pass.to_remove # <<>>
    /\ gs.explosions # <<>>
    /\ gs.explosions[Len(gs.explosions)].scale = cvars.g_cluster_bomb_explosion_scale

\* the positions in the flushed cmds of the entities vehicle v pushed
PushedBy(ps, v) == {i \in 1..Len(ps.cmds) : ps.cmds[i].e.owner = v}

\* C12: a vehicle that passes the guards of shooting() with the cluster bomb
\* selected adds exactly g_cluster_bomb_count new entities to the store, all
\* Weapon::Cb with the vehicle as Owner and a Time within
\* [frame_time + g_cluster_bomb_time - g_cluster_bomb_time_spread,
\*  frame_time + g_cluster_bomb_time + g_cluster_bomb_time_spread], and its
\* cluster bomb ammo loses exactly one unit (the last unit starts the reload).
C12_Step ==
    pc = "shooting" =>
        \A v \in VehicleIds :
            CanShoot(vehicles[v], gs) /\ vehicles[v].cur_weapon = "Cb" =>
                /\ Cardinality(PushedBy(pass', v)) = cvars.g_cluster_bomb_count
                /\ Cardinality({id \in DOMAIN projs' \ DOMAIN projs : projs'[id].owner = v})
                      = cvars.g_cluster_bomb_count
                /\ \A i \in PushedBy(pass', v) :
                      /\ pass'.cmds[i].id \notin DOMAIN projs
                      /\ pass'.cmds[i].id \in DOMAIN projs'
                      /\ projs'[pass'.cmds[i].id] = pass'.cmds[i].e
                      /\ pass'.cmds[i].e.weap = "Cb"
                      /\ pass'.cmds[i].e.time # None
                      /\ Unwrap(pass'.cmds[i].e.time) >=
                            gs.frame_time + cvars.g_cluster_bomb_time
                                - cvars.g_cluster_bomb_time_spread
                      /\ Unwrap(pass'.cmds[i].e.time) <=
                            gs.frame_time + cvars.g_cluster_bomb_time
                                + cvars.g_cluster_bomb_time_spread
                /\ \A w \in Weapon \ {"Cb"} : vehicles'[v].ammos[w] = vehicles[v].ammos[w]
                /\ IF vehicles[v].ammos["Cb"].b = 1
                   THEN vehicles'[v].ammos["Cb"].kind = "Reloading"
                   ELSE /\ vehicles'[v].ammos["Cb"].kind = "Loaded"
                        /\ vehicles'[v].ammos["Cb"].b = vehicles[v].ammos["Cb"].b - 1

C12_ClusterBombCount == [][C12_Step]_vars

\* vehicle 2 has fired MaxClusterBombs sub-munitions with two different expiry
\* times, and its magazine is not yet empty
C12_Witness ==
    /\ pass.system = "shooting"
    /\ cvars.g_cluster_bomb_count >= 2
    /\ Cardinality(PushedBy(pass, 2)) = cvars.g_cluster_bomb_count
    /\ \E i, j \in PushedBy(pass, 2) : pass.cmds[i].e.time # pass.cmds[j].e.time
    /\ vehicles[2].ammos["Cb"].kind = "Loaded"
    /\ \A i \in PushedBy(pass, 2) : pass.cmds[i].id \in DOMAIN projs

\* C13: in vehicle_logic() every vehicle's cur_weapon moves one position
\* forward exactly when its Input holds next_weapon and did not hold it in the
\* previous frame, one position back exactly when its Input holds prev_weapon
\* and did not hold it in the previous frame, with wraparound, and stays
\* otherwise.
C13_Step ==
    pc = "vehicle_logic" =>
        \A v \in VehicleIds :
            LET fwd == B2I(vehicles[v].input.next_weapon /\ ~ent_prev[v].next_weapon)
                back == B2I(vehicles[v].input.prev_weapon /\ ~ent_prev[v].prev_weapon)
            IN  WeaponAsU8(vehicles'[v].cur_weapon) =
                    (WeaponAsU8(vehicles[v].cur_weapon) + WEAPS_CNT - back + fwd) % WEAPS_CNT

C13_EdgeTriggeredPerVehicle == [][C13_Step]_vars

\* some corner of the hitbox at pos and angle collides with the map
CornerHit(hitbox, pos, angle) == \E corner \in corners(hitbox, pos, angle) : collision(corner)

\* the turn_rate, rotated velocity and candidate heading turning() gives vehicle v
TurnOf(v) ==
    turning(g_vehicle_movement_stats(cvars, vehicles[v].veh_type), vehicles[v].vel,
            vehicles[v].angle, vehicles[v].turn_rate, vehicles[v].input, gs.dt)

\* C14: in vehicle_movement(), a corner colliding at the candidate heading and
\* the current position leaves Angle unchanged and makes TurnRate -1/2 of its
\* post-friction value, else the candidate heading is committed; a corner
\* colliding at the candidate position and the committed heading leaves Pos
\* unchanged and makes Vel -1/2 of its post-acceleration value, else the
\* candidate position is committed; after the step no vehicle has a hitbox
\* corner in a blocking cell.
C14_Step ==
    pc = "vehicle_movement" =>
        \A v \in VehicleIds :
            \E t \in {TurnOf(v)} :
                /\ IF CornerHit(vehicles[v].hitbox, vehicles[v].pos, t.new_angle)
                   THEN /\ vehicles'[v].angle = vehicles[v].angle
                        /\ vehicles'[v].turn_rate = NegHalf(t.turn_rate)
                   ELSE /\ vehicles'[v].angle = t.new_angle
                        /\ vehicles'[v].turn_rate = t.turn_rate
                /\ \E vel1 \in {accel_decel(g_vehicle_movement_stats(cvars, vehicles[v].veh_type),
                                             t.vel, vehicles'[v].angle, vehicles[v].input,
                                             gs.dt)} :
                      IF CornerHit(vehicles[v].hitbox, VAdd(vehicles[v].pos, VMul(vel1, gs.dt)),
                                   vehicles'[v].angle)
                      THEN /\ vehicles'[v].pos = vehicles[v].pos
                           /\ vehicles'[v].vel = VNegHalf(vel1)
                      ELSE /\ vehicles'[v].pos = VAdd(vehicles[v].pos, VMul(vel1, gs.dt))
                           /\ vehicles'[v].vel = vel1
                /\ ~CornerHit(vehicles'[v].hitbox, vehicles'[v].pos, vehicles'[v].angle)

C14_CollisionRollback == [][C14_Step]_vars

\* vehicle 1 steers right and keeps its heading with a turn rate against the
\* steering: its turn was rejected; vehicle 2, which no input ever reversed,
\* moves against its heading: its move was rejected
C14_Witness ==
    /\ pass.system = "vehicle_movement"
    /\ vehicles[1].input.right
    /\ vehicles[1].angle = 0
    /\ vehicles[1].turn_rate < 0
    /\ vehicles[2].angle = 8
    /\ vehicles[2].vel[1] > 0

\* the vehicles self_destruct() destroys in the current state
SelfDestructing == {v \in VehicleIds : gs.input.self_destruct /\ ~vehicles[v].destroyed}

\* C15: self_destruct() makes every vehicle that is not destroyed destroyed
\* when the self-destruct input is active and appends for it two explosions at
\* its position, g_self_destruct_explosion1_scale then
\* g_self_destruct_explosion2_scale, both at frame_time and not BFG; it changes
\* nothing else, and nothing at all for a destroyed vehicle or an inactive
\* input.  No step makes a destroyed vehicle not destroyed, so a vehicle adds
\* its two explosions once however long the input stays active.
C15_Step ==
    /\ \A v \in VehicleIds : vehicles[v].destroyed => vehicles'[v].destroyed
    /\ pc = "self_destruct" =>
        /\ vehicles' = [v \in VehicleIds |->
                          IF v \in SelfDestructing
                          THEN [vehicles[v] EXCEPT !.destroyed = TRUE]
                          ELSE vehicles[v]]
        /\ gs' = [gs EXCEPT !.explosions = gs'.explosions]
        /\ Len(gs'.explosions) = Len(gs.explosions) + 2 * Cardinality(SelfDestructing)
        /\ SubSeq(gs'.explosions, 1, Len(gs.explosions)) = gs.explosions
        /\ \A v \in SelfDestructing :
              \E k \in 0..(Cardinality(SelfDestructing) - 1) :
                  /\ gs'.explosions[Len(gs.explosions) + 2 * k + 1] =
                        Explosion(vehicles[v].pos, cvars.g_self_destruct_explosion1_scale,
                                  gs.frame_time, FALSE)
                  /\ gs'.explosions[Len(gs.explosions) + 2 * k + 2] =
                        Explosion(vehicles[v].pos, cvars.g_self_destruct_explosion2_scale,
                                  gs.frame_time, FALSE)
        /\ projs' = projs

C15_SelfDestructOnce == [][C15_Step]_vars

\* the input is active in the second frame in a row: self_destruct() has run
\* again, every vehicle is destroyed and no explosion was added
C15_Witness ==
    /\ pass.system = "self_destruct"
    /\ gs.frame_time = 1
    /\ gs.input.self_destruct
    /\ gs_prev.input.self_destruct
    /\ \A v \in VehicleIds : vehicles[v].destroyed
    /\ gs.explosions = <<>>

\* C16: after vehicle_logic() every Reloading entry whose end is not after
\* frame_time is Loaded(frame_time, g_weapon_reload_ammo), in every slot of
\* every vehicle's ammos, the selected one or not.
C16_Step ==
    pc = "vehicle_logic" =>
        \A v \in VehicleIds : \A w \in Weapon :
            (vehicles[v].ammos[w].kind = "Reloading" /\ gs.frame_time >= vehicles[v].ammos[w].b)
                => vehicles'[v].ammos[w] = Loaded(gs.frame_time, g_weapon_reload_ammo(cvars, w))

C16_ReloadEverySlot == [][C16_Step]_vars

\* the entries of a list, as a set
Range(list) == {list[i] : i \in 1..Len(list)}

\* C17: shooting() leaves the vehicles' destroyed flags and the entities of the
\* store as they are and adds the pushed projectiles, under new and pairwise
\* different ids, at the flush; the loops of projectiles() and
\* projectiles_timeout() leave the set of entities as it is, every entity of
\* to_remove is in the store when the removals are applied and is listed once,
\* the removals take exactly these entities out, every id of to_kill is a
\* vehicle of the store that was not destroyed when the pass started, and the
\* destroyed flags change only by the kills applied after the loop.
C17_Step ==
    /\ DOMAIN vehicles' = DOMAIN vehicles
    /\ pc = "shooting" =>
        /\ \A v \in VehicleIds : vehicles'[v].destroyed = vehicles[v].destroyed
        /\ \A id \in DOMAIN projs : id \in DOMAIN projs' /\ projs'[id] = projs[id]
        /\ DOMAIN projs' \ DOMAIN projs = {pass'.cmds[i].id : i \in 1..Len(pass'.cmds)}
        /\ Cardinality(DOMAIN projs' \ DOMAIN projs) = Len(pass'.cmds)
    /\ pc = "projectiles" =>
        /\ DOMAIN pass'.loop_projs = DOMAIN projs
        /\ Distinct(pass'.to_remove)
        /\ Range(pass'.to_remove) \subseteq DOMAIN projs
        /\ DOMAIN projs' = DOMAIN projs \ Range(pass'.to_remove)
        /\ \A v \in Range(pass'.to_kill) : v \in DOMAIN vehicles /\ ~vehicles[v].destroyed
        /\ \A v \in VehicleIds :
              vehicles'[v].destroyed = (vehicles[v].destroyed \/ v \in Range(pass'.to_kill))
    /\ pc = "projectiles_timeout" =>
        /\ Distinct(pass'.to_remove)
        /\ Range(pass'.to_remove) \subseteq DOMAIN projs
        /\ DOMAIN projs' = DOMAIN projs \ Range(pass'.to_remove)
        /\ vehicles' = vehicles

C17_DeferredMutation == [][C17_Step]_vars

\* one pass of projectiles() has put the same vehicle on to_kill twice, for two
\* projectiles that are both removed: the second one still saw it alive
C17_Witness ==
    /\ pass.system = "projectiles"
    /\ \E i, j \in 1..Len(pass.to_kill) : i # j /\ pass.to_kill[i] = pass.to_kill[j]
    /\ Len(pass.to_remove) >= 2
    /\ Range(pass.to_remove) \cap DOMAIN projs = {}
    /\ \A v \in Range(pass.to_kill) : vehicles[v].destroyed

\* the vehicles that are not destroyed and have the railgun selected
RailgunUsers == {u \in VehicleIds : ~vehicles[u].destroyed /\ vehicles[u].cur_weapon = "Rail"}

\* C18: a destroyed vehicle stays destroyed and stays in the store; in
\* shooting() it does not pass the guards, pushes no projectile, keeps its
\* ammos as they are, and railgun traces are added for vehicles that are not
\* destroyed only; in projectiles() it is not put on to_kill and gets no
\* destruction explosion.
C18_Step ==
    \A v \in VehicleIds :
        vehicles[v].destroyed =>
            /\ v \in DOMAIN vehicles'
            /\ vehicles'[v].destroyed
            /\ pc = "shooting" =>
                /\ v \notin Range(pass'.fired)
                /\ PushedBy(pass', v) = {}
                /\ \A id \in DOMAIN projs' \ DOMAIN projs : projs'[id].owner # v
                /\ vehicles'[v].ammos = vehicles[v].ammos
                /\ Len(gs'.railguns) <= Len(gs.railguns) + Cardinality(RailgunUsers)
            /\ pc = "projectiles" =>
                /\ v \notin Range(pass'.to_kill)
                /\ \A i \in 1..Len(pass'.kills) : pass'.kills[i].veh # v

C18_DestroyedIsInert == [][C18_Step]_vars

\* in the second frame the fire input is active and a destroyed vehicle whose
\* selected weapon is loaded and ready has not fired, while another vehicle has
C18_Witness ==
    /\ pass.system = "shooting"
    /\ gs.frame_time = 1
    /\ gs.input.fire
    /\ pass.fired # <<>>
    /\ \E v \in VehicleIds :
          /\ vehicles[v].destroyed
          /\ vehicles[v].ammos[vehicles[v].cur_weapon].kind = "Loaded"
          /\ vehicles[v].ammos[vehicles[v].cur_weapon].a <= gs.frame_time
          /\ v \notin Range(pass.fired)
          /\ \A id \in DOMAIN projs : projs[id].owner = v => id < next_id - Len(pass.cmds)

\* the cluster bomb sub-munitions of the store
ClusterBombIds == {id \in DOMAIN projs : projs[id].weap = "Cb"}

\* C19: projectiles() commits the new position of every cluster bomb
\* sub-munition and neither removes it, nor stops it at the map, nor kills a
\* vehicle for it; projectiles_timeout() removes it exactly when frame_time is
\* greater than its expiry, with its explosion at its current position, and
\* keeps it as it is when frame_time is at or below the expiry; no other system
\* removes it.
C19_Step ==
    \A id \in ClusterBombIds :
        /\ pc = "projectiles" =>
            /\ id \in DOMAIN projs'
            /\ projs'[id] = [projs[id] EXCEPT !.pos = VAdd(projs[id].pos,
                                                          VMul(projs[id].vel, gs.dt))]
            /\ id \notin Range(pass'.to_remove)
            /\ \A i \in 1..Len(pass'.kills) : pass'.kills[i].proj # id
            /\ \A i \in 1..Len(pass'.stops) : pass'.stops[i].proj # id
        /\ pc = "projectiles_timeout" =>
            IF gs.frame_time > Unwrap(projs[id].time)
            THEN /\ id \notin DOMAIN projs'
                 /\ \E i \in (Len(gs.explosions) + 1)..Len(gs'.explosions) :
                       gs'.explosions[i] =
                           Explosion(projs[id].pos, cvars.g_cluster_bomb_explosion_scale,
                                     gs.frame_time, FALSE)
            ELSE /\ id \in DOMAIN projs'
                 /\ projs'[id] = projs[id]
        /\ pc \notin {"projectiles", "projectiles_timeout"} =>
            /\ id \in DOMAIN projs'
            /\ projs'[id] = projs[id]

\* C19 (liveness): with the frame loop running on until the clock reaches
\* MaxTime, the store ends up without any sub-munition whose expiry is below
\* MaxTime: every sub-munition the clock passes is removed.
C19_EventuallyRemoved ==
    <>[](\A id \in ClusterBombIds : Unwrap(projs[id].time) >= MaxTime)

\* C19: the lifecycle of a cluster bomb sub-munition, its steps and its end
C19_ClusterBombLifecycle == [][C19_Step]_vars /\ C19_EventuallyRemoved

\* projectiles_timeout() at frame_time 1 has removed a sub-munition and kept
\* another one whose expiry is the frame_time
C19_Witness ==
    /\ pass.system = "projectiles_timeout"
    /\ gs.frame_time = 1
    /\ pass.to_remove # <<>>
    /\ \E i \in 1..Len(gs.explosions) :
          gs.explosions[i].scale = cvars.g_cluster_bomb_explosion_scale
    /\ \E id \in ClusterBombIds : Unwrap(projs[id].time) = gs.frame_time

\* the ammo entry of the weapon vehicle v has selected
CurAmmo(v) == vehicles[v].ammos[vehicles[v].cur_weapon]

\* C20: in shooting() a vehicle passes the guards at most once, and only with
\* the ammo of its selected weapon Loaded and ready_time <= frame_time; the
\* shot leaves that entry Loaded with ready_time = frame_time +
\* g_weapon_refire and the count one lower, or Reloading from frame_time to
\* frame_time + g_weapon_reload_time when the count reaches 0; a vehicle that
\* does not shoot keeps its ammos, and no entry of another weapon changes.
\* Outside shooting() an entry changes only in vehicle_logic(), from Reloading
\* with end <= frame_time to Loaded with ready_time = frame_time, so ready_time
\* is never moved back and no reload ends before its end timestamp.
C20_Step ==
    \A v \in VehicleIds :
        /\ pc = "shooting" =>
            /\ ShotsOf(pass', v) <= 1
            /\ vehicles'[v].cur_weapon = vehicles[v].cur_weapon
            /\ \A w \in Weapon \ {vehicles[v].cur_weapon} :
                  vehicles'[v].ammos[w] = vehicles[v].ammos[w]
            /\ IF ShotsOf(pass', v) = 1
               THEN /\ CurAmmo(v).kind = "Loaded"
                    /\ CurAmmo(v).a <= gs.frame_time
                    /\ vehicles'[v].ammos[vehicles[v].cur_weapon] =
                          IF CurAmmo(v).b - 1 = 0
                          THEN Reloading(gs.frame_time,
                                         gs.frame_time + cvars.g_weapon_reload_time)
                          ELSE Loaded(gs.frame_time + cvars.g_weapon_refire,
                                      CurAmmo(v).b - 1)
               ELSE /\ vehicles'[v].ammos = vehicles[v].ammos
                    /\ PushedBy(pass', v) = {}
        /\ pc = "vehicle_logic" =>
            \A w \in Weapon :
                vehicles'[v].ammos[w] # vehicles[v].ammos[w] =>
                    /\ vehicles[v].ammos[w].kind = "Reloading"
                    /\ vehicles[v].ammos[w].b <= gs.frame_time
                    /\ vehicles'[v].ammos[w] =
                          Loaded(gs.frame_time, cvars.g_weapon_reload_ammo)
        /\ pc \notin {"shooting", "vehicle_logic"} =>
            vehicles'[v].ammos = vehicles[v].ammos

C20_FireRateGuard == [][C20_Step]_vars

\* the fire input is active in the second frame in a row; vehicle 1 shot in the
\* first and its weapon is Loaded with a ready_time still ahead, so it has not
\* shot again
C20_Witness ==
    /\ pass.system = "shooting"
    /\ gs.frame_time = 1
    /\ gs.input.fire
    /\ gs_prev.input.fire
    /\ CurAmmo(1).kind = "Loaded"
    /\ CurAmmo(1).a > gs.frame_time
    /\ CurAmmo(1).b = cvars.g_weapon_reload_ammo - 1
    /\ 1 \notin Range(pass.fired)
    /\ PushedBy(pass, 1) = {}

\* C21: a guided missile gs.guided_missile references, and that is in the store
\* after a system call, is still referenced after the call unless the call
\* launched a newer one; the removal of another missile does not clear the
\* reference.
C21_Step ==
    \A e \in DOMAIN projs :
        (gs.guided_missile = Some(e) /\ e \in DOMAIN projs') =>
            /\ gs'.guided_missile # None
            /\ Unwrap(gs'.guided_missile) >= e

C21_TracksLatestMissile == [][C21_Step]_vars

\* the number of times vehicle v is on the kill log of a projectiles() pass
KillsOf(ps, v) == Cardinality({i \in 1..Len(ps.kills) : ps.kills[i].veh = v})

\* C22: after a projectiles() pass every vehicle is on to_kill at most once
\* and has at most one destruction explosion, however many projectiles were
\* within hit or beam range of it.
C22_KilledAtMostOnce ==
    pass.system = "projectiles" =>
        /\ Distinct(pass.to_kill)
        /\ \A v \in VehicleIds : KillsOf(pass, v) <= 1

====
